---- MODULE Spec2Model ----
(***************************************************************************)
(* Model of the Milkymist AC'97 controller (hw/milkymist-ac97.c).          *)
(*                                                                         *)
(* The device state is the register file regs[R_MAX] and the activity of   *)
(* the two backend voices (set through AUD_set_active_in/out).  The        *)
(* operations are the MMIO handlers ac97_read / ac97_write, the two audio  *)
(* capacity callbacks ac97_in_cb / ac97_out_cb, milkymist_ac97_reset and   *)
(* the vmstate load followed by ac97_post_load.                            *)
(*                                                                         *)
(* uint32_t / int values are kept as 32-bit patterns <<hi, lo>> made of    *)
(* two 16-bit halves, so that arithmetic is modulo 2^32 as in the C code.  *)
(***************************************************************************)
EXTENDS Integers, Sequences, FiniteSets, TLC

(***************************************************************************)
(* 32-bit words                                                            *)
(***************************************************************************)
Half == 65536
SignBit == 32768

\* the word whose value is n, for 0 <= n < 2^31
W(n) == <<n \div Half, n % Half>>

\* the word built from its two halves
HL(h, l) == <<h, l>>

Zero32 == W(0)
AllOnes32 == HL(Half - 1, Half - 1)

\* a + b modulo 2^32
Add32(a, b) ==
    LET lo == a[2] + b[2]
        hi == a[1] + b[1] + (lo \div Half)
    IN  <<hi % Half, lo % Half>>

\* a - b modulo 2^32
Sub32(a, b) ==
    LET lo == a[2] - b[2]
        borrow == IF lo < 0 THEN 1 ELSE 0
        hi == a[1] - b[1] - borrow
    IN  <<(hi + Half) % Half, (lo + Half) % Half>>

\* unsigned comparison a > b
UGt(a, b) == a[1] > b[1] \/ (a[1] = b[1] /\ a[2] > b[2])

\* the pattern read as a C int is negative
IsNeg(a) == a[1] >= SignBit

\* value & mask # 0, for a single-bit mask below 2^16
TestBit(a, mask) == (a[2] \div mask) % 2 = 1

\* value & ~mask, for a single-bit mask below 2^16
ClearBit(a, mask) == IF TestBit(a, mask) THEN <<a[1], a[2] - mask>> ELSE a

(***************************************************************************)
(* Register indices and bit masks (the enums of the source)                *)
(***************************************************************************)
R_AC97_CTRL == 0
R_AC97_ADDR == 1
R_AC97_DATAOUT == 2
R_AC97_DATAIN == 3
R_D_CTRL == 4
R_D_ADDR == 5
R_D_REMAINING == 6
R_RESERVED == 7
R_U_CTRL == 8
R_U_ADDR == 9
R_U_REMAINING == 10
R_MAX == 11

AC97_CTRL_RQEN == 1
AC97_CTRL_WRITE == 2
CTRL_EN == 1

\* sizeof(buf) in both callbacks
BufSize == 4096

RegIdx == 0 .. (R_MAX - 1)

\* the four interrupt lines of MilkymistAC97State
Lines == {"crrequest_irq", "crreply_irq", "dmar_irq", "dmaw_irq"}
NoPulse == [l \in Lines |-> 0]

\* qemu_irq_pulse(line) added to the pulses of the running handler
qemu_irq_pulse(p, line) == [p EXCEPT ![line] = @ + 1]

(***************************************************************************)
(* Bounds of the model                                                     *)
(***************************************************************************)
\* largest register index the guest addresses (R_MAX and above are unknown)
MaxIdx == 12
\* most capacity callbacks that offer bytes to a channel with bytes remaining
\* which the backend delivers between two resets/restores
MaxCallbacks == 2

\* the byte address used for register idx: one per word, at every alignment
ByteAddr(idx) == 4 * idx + (idx % 4)

\* what the backend can move during one callback, whatever it offered:
\* nothing, part of two chunks, or every byte asked for
Rooms == {0, 5000, 4 * BufSize}

VARIABLES
    regs,               \* s->regs[R_MAX]
    voice_out_active,   \* activity of s->voice_out (AUD_set_active_out)
    voice_in_active,    \* activity of s->voice_in (AUD_set_active_in)
    op,                 \* the handler that ran last, with its arguments
    ret,                \* the value it returned
    pulses,             \* qemu_irq_pulse calls it made, per line
    io,                 \* backend and guest-memory calls it made, in order
    ncb,                \* callbacks counted by MaxCallbacks since reset/restore
    xfer,               \* per channel: ADDR and REMAINING when the channel was
                        \* last programmed, and the bytes the backend has moved
                        \* since then
    e2e,                \* how far the handlers run since the last reset follow
                        \* the playback scenario (0: they left it)
    aborted             \* a signed overflow trapped: the emulator is gone

vars ==
    <<regs, voice_out_active, voice_in_active, op, ret, pulses, io, ncb, xfer,
      e2e, aborted>>

\* the two DMA channels and their registers
Channels == {"D", "U"}
CtrlOf(ch) == IF ch = "D" THEN R_D_CTRL ELSE R_U_CTRL
AddrOf(ch) == IF ch = "D" THEN R_D_ADDR ELSE R_U_ADDR
RemOf(ch) == IF ch = "D" THEN R_D_REMAINING ELSE R_U_REMAINING
RegsOf(ch) == {CtrlOf(ch), AddrOf(ch), RemOf(ch)}

\* every AUD_read / AUD_write among the calls moved all it was asked for
FullyAccepted(calls) ==
    \A i \in 1 .. Len(calls) :
        calls[i].call \in {"AUD_read", "AUD_write"} => calls[i].ret = calls[i].len

\* the playback scenario: reset; D_ADDR = 0x1000; D_REMAINING = 8192;
\* D_CTRL = 1; playback callbacks offering 4096, 4096 and 100 bytes, the
\* backend accepting every request in full.  The stage reached once handler o
\* has run and made the given calls.
ScenarioStage(stage, o, calls) ==
    CASE o.name = "reset" -> 1
      [] stage = 1 /\ o = [name |-> "write", idx |-> R_D_ADDR, value |-> W(4096)]
           -> 2
      [] stage = 2 /\ o = [name |-> "write", idx |-> R_D_REMAINING,
                           value |-> W(8192)]
           -> 3
      [] stage = 3 /\ o = [name |-> "write", idx |-> R_D_CTRL, value |-> W(1)]
           -> 4
      [] stage \in {4, 5} /\ o = [name |-> "out_cb", avail |-> W(4096)]
                          /\ FullyAccepted(calls)
           -> stage + 1
      [] stage = 6 /\ o = [name |-> "out_cb", avail |-> W(100)]
                  /\ FullyAccepted(calls)
           -> 7
      [] OTHER -> 0

Scenario == e2e' = ScenarioStage(e2e, op', io')

\* the transfer a channel starts on when its registers hold r
Programmed(r) ==
    [ch \in Channels |->
        [addr |-> r[AddrOf(ch)], rem |-> r[RemOf(ch)], moved |-> 0]]

NoRet == <<>>

(***************************************************************************)
(* update_voices                                                           *)
(***************************************************************************)
\* faulty variant: tests the whole register instead of CTRL_EN
update_voices_out_nonzero(r) == r[R_D_CTRL] # Zero32

update_voices_out(r) == TestBit(r[R_D_CTRL], CTRL_EN)

\* faulty variant: tests the playback channel's register
update_voices_in_wrong_channel(r) == TestBit(r[R_D_CTRL], CTRL_EN)

update_voices_in(r) == TestBit(r[R_U_CTRL], CTRL_EN)

\* what update_voices depends on and changes: the register file and the
\* activity of the two voices
DevState(r, out, in) == [regs |-> r, out |-> out, in |-> in]

\* update_voices(s)
update_voices(s) ==
    DevState(s.regs, update_voices_out(s.regs), update_voices_in(s.regs))

(***************************************************************************)
(* ac97_read                                                               *)
(***************************************************************************)
ReadableRegs ==
    {R_AC97_CTRL, R_AC97_ADDR, R_AC97_DATAOUT, R_AC97_DATAIN, R_D_CTRL,
     R_D_ADDR, R_D_REMAINING, R_U_CTRL, R_U_ADDR, R_U_REMAINING}

\* faulty variant: the reserved slot is readable
ac97_read_reserved(r, idx) == IF idx \in RegIdx THEN r[idx] ELSE Zero32

ac97_read(r, idx) == IF idx \in ReadableRegs THEN r[idx] ELSE Zero32

Read(addr) ==
    LET idx == addr \div 4
    IN  /\ ret' = ac97_read(regs, idx)
        /\ op' = [name |-> "read", idx |-> idx]
        /\ pulses' = NoPulse
        /\ io' = <<>>
        /\ UNCHANGED <<regs, voice_out_active, voice_in_active, ncb, xfer,
                       aborted>>
        /\ Scenario

(***************************************************************************)
(* ac97_write                                                              *)
(***************************************************************************)
PlainRegs ==
    {R_AC97_ADDR, R_AC97_DATAOUT, R_AC97_DATAIN, R_D_ADDR, R_D_REMAINING,
     R_U_ADDR, R_U_REMAINING}

CtrlRegs == {R_D_CTRL, R_U_CTRL}

\* faulty variant: the direction test is inverted
ac97_write_pulses_inverted(idx, value) ==
    IF idx = R_AC97_CTRL /\ TestBit(value, AC97_CTRL_RQEN)
    THEN IF TestBit(value, AC97_CTRL_WRITE)
         THEN qemu_irq_pulse(NoPulse, "crreply_irq")
         ELSE qemu_irq_pulse(NoPulse, "crrequest_irq")
    ELSE NoPulse

\* the pulses of the R_AC97_CTRL case
ac97_write_pulses(idx, value) ==
    IF idx = R_AC97_CTRL /\ TestBit(value, AC97_CTRL_RQEN)
    THEN IF TestBit(value, AC97_CTRL_WRITE)
         THEN qemu_irq_pulse(NoPulse, "crrequest_irq")
         ELSE qemu_irq_pulse(NoPulse, "crreply_irq")
    ELSE NoPulse

\* faulty variant: the case label of R_AC97_DATAIN is missing
ac97_write_regs_no_datain(r, idx, value) ==
    IF idx = R_AC97_CTRL
    THEN [r EXCEPT ![idx] = ClearBit(value, AC97_CTRL_RQEN)]
    ELSE IF idx \in CtrlRegs \cup (PlainRegs \ {R_AC97_DATAIN})
         THEN [r EXCEPT ![idx] = value]
         ELSE r

\* faulty variant: RQEN is stored as written
ac97_write_regs_keep_rqen(r, idx, value) ==
    IF idx \in {R_AC97_CTRL} \cup CtrlRegs \cup PlainRegs
    THEN [r EXCEPT ![idx] = value]
    ELSE r

\* the register file after the switch
ac97_write_regs(r, idx, value) ==
    IF idx = R_AC97_CTRL
    THEN [r EXCEPT ![idx] = ClearBit(value, AC97_CTRL_RQEN)]
    ELSE IF idx \in CtrlRegs \cup PlainRegs
         THEN [r EXCEPT ![idx] = value]
         ELSE r

\* faulty variant: the control case stores the value and leaves the voices
ac97_write_state_no_update(s, idx, value) ==
    DevState(ac97_write_regs(s.regs, idx, value), s.out, s.in)

\* registers and voices after ac97_write: the R_D_CTRL / R_U_CTRL case calls
\* update_voices, no other case does
ac97_write_state(s, idx, value) ==
    LET s1 == DevState(ac97_write_regs(s.regs, idx, value), s.out, s.in)
    IN  IF idx \in CtrlRegs THEN update_voices(s1) ELSE s1

Write(addr, value) ==
    LET idx == addr \div 4
        s1 == ac97_write_state(
                  DevState(regs, voice_out_active, voice_in_active), idx, value)
        r1 == s1.regs
    IN  /\ regs' = r1
        /\ voice_out_active' = s1.out
        /\ voice_in_active' = s1.in
        /\ pulses' = ac97_write_pulses(idx, value)
        /\ op' = [name |-> "write", idx |-> idx, value |-> value]
        /\ ret' = NoRet
        /\ io' = <<>>
        /\ xfer' = [ch \in Channels |->
                      IF idx \in RegsOf(ch) THEN Programmed(r1)[ch] ELSE xfer[ch]]
        /\ UNCHANGED <<ncb, aborted>>
        /\ Scenario

(***************************************************************************)
(* ac97_in_cb and ac97_out_cb                                              *)
(***************************************************************************)
\* audio_MIN on two unsigned operands: ((a) > (b) ? (b) : (a))
audio_MIN(a, b) == IF UGt(a, b) THEN b ELSE a

\* faulty variant: the offer is not limited by REMAINING
cb_temp_offer(remaining, avail_b) == avail_b

\* int temp = audio_MIN(remaining, avail_b): avail_b is converted to unsigned
\* for the comparison, the result is stored as an int pattern
cb_temp(remaining, avail_b) == audio_MIN(remaining, avail_b)

\* faulty variant: the chunk is not limited to the buffer
cb_to_copy_uncapped(temp) == temp[1] * Half + temp[2]

\* to_copy = audio_MIN(temp, sizeof(buf)): temp is converted to size_t, so a
\* negative temp compares as a huge value; the result is at most sizeof(buf)
cb_to_copy(temp) ==
    IF IsNeg(temp) \/ UGt(temp, W(BufSize)) THEN BufSize ELSE temp[1] * Half + temp[2]

\* the local variables of a callback at its loop head.  temp and transferred
\* are C ints kept as 32-bit patterns; trap is set once a signed overflow
\* has ended the run
LoopStart(temp, addr) ==
    [temp |-> temp, addr |-> addr, transferred |-> Zero32, io |-> <<>>,
     trap |-> FALSE]

\* temp -= n leaves the range of int: temp is negative and the difference
\* is below INT_MIN (n is a positive byte count of at most sizeof(buf))
SubOverflows(temp, n) == IsNeg(temp) /\ ~IsNeg(Sub32(temp, W(n)))

\* transferred += n leaves the range of int
AddOverflows(transferred, n) ==
    ~IsNeg(transferred) /\ IsNeg(Add32(transferred, W(n)))

\* a signed overflow is undefined: the build either wraps modulo 2^32 (the
\* plain machine instruction, -fwrapv) or traps and ends the emulator
\* (-ftrapv)
Overflow == {"wrap", "trap"}

\* what the build can make of a callback that starts with temp: no signed
\* operation overflows unless temp is negative (temp only decreases towards
\* 0 and transferred stays below it otherwise), and then every build does
\* the same
Outcomes(temp) == IF IsNeg(temp) THEN Overflow ELSE {"wrap"}

\* the loop body's updates trap in this build
Traps(st, n, ub) ==
    /\ ub = "trap"
    /\ (SubOverflows(st.temp, n) \/ AddOverflows(st.transferred, n))

\* faulty variant: transferred = n instead of transferred += n
loop_advance_assign(st, n, calls) ==
    [temp |-> Sub32(st.temp, W(n)),
     addr |-> Add32(st.addr, W(n)),
     transferred |-> W(n),
     io |-> st.io \o calls,
     trap |-> st.trap]

\* faulty variant: the cursor advances by a whole buffer, not by the bytes
\* the backend moved
loop_advance_by_buffer(st, n, calls) ==
    [temp |-> Sub32(st.temp, W(n)),
     addr |-> Add32(st.addr, W(BufSize)),
     transferred |-> Add32(st.transferred, W(n)),
     io |-> st.io \o calls,
     trap |-> st.trap]

\* the three updates at the end of a loop body
loop_advance(st, n, calls) ==
    [temp |-> Sub32(st.temp, W(n)),
     addr |-> Add32(st.addr, W(n)),
     transferred |-> Add32(st.transferred, W(n)),
     io |-> st.io \o calls,
     trap |-> st.trap]

\* AUD_read / AUD_write asked for n bytes when the backend can move room
AUD_move(n, room) == IF n < room THEN n ELSE room

\* the while loop of ac97_in_cb; room is what the backend can still move, ub
\* what a signed overflow does.  The next iteration runs on nx, the values
\* the loop body left, which the set constructor computes once
RECURSIVE in_cb_loop(_, _, _)
in_cb_loop(st, room, ub) ==
    IF st.temp = Zero32
    THEN st
    ELSE LET to_copy == cb_to_copy(st.temp)
             acquired == AUD_move(to_copy, room)
             rd == [call |-> "AUD_read", len |-> to_copy, ret |-> acquired]
             wr == [call |-> "cpu_physical_memory_write",
                    addr |-> st.addr, len |-> acquired]
         IN  IF acquired = 0
             THEN [st EXCEPT !.io = @ \o <<rd>>]
             ELSE IF Traps(st, acquired, ub)
             THEN [st EXCEPT !.io = @ \o <<rd, wr>>, !.trap = TRUE]
             ELSE CHOOSE r \in
                      {in_cb_loop(nx, room - acquired, ub) :
                          nx \in {loop_advance(st, acquired, <<rd, wr>>)}} :
                      TRUE

\* the while loop of ac97_out_cb
RECURSIVE out_cb_loop(_, _, _)
out_cb_loop(st, room, ub) ==
    IF st.temp = Zero32
    THEN st
    ELSE LET to_copy == cb_to_copy(st.temp)
             copied == AUD_move(to_copy, room)
             rd == [call |-> "cpu_physical_memory_read",
                    addr |-> st.addr, len |-> to_copy]
             wr == [call |-> "AUD_write", len |-> to_copy, ret |-> copied]
         IN  IF copied = 0
             THEN [st EXCEPT !.io = @ \o <<rd, wr>>]
             ELSE IF Traps(st, copied, ub)
             THEN [st EXCEPT !.io = @ \o <<rd, wr>>, !.trap = TRUE]
             ELSE CHOOSE r \in
                      {out_cb_loop(nx, room - copied, ub) :
                          nx \in {loop_advance(st, copied, <<rd, wr>>)}} :
                      TRUE

\* faulty variant: a loop that stopped short does not store its cursor
cb_regs_drop_cursor(r, ch, st) ==
    [r EXCEPT ![AddrOf(ch)] = IF st.temp = Zero32 THEN st.addr ELSE @,
              ![RemOf(ch)] = Sub32(@, st.transferred)]

\* faulty variant: a transfer that completes disables its channel
cb_regs_auto_disable(r, ch, st) ==
    [r EXCEPT ![AddrOf(ch)] = st.addr,
              ![RemOf(ch)] = Sub32(@, st.transferred),
              ![CtrlOf(ch)] = IF r[RemOf(ch)] = st.transferred
                              THEN ClearBit(@, CTRL_EN) ELSE @]

\* the register file after the loop: ADDR = addr, REMAINING -= transferred
cb_regs(r, ch, st) ==
    [r EXCEPT ![AddrOf(ch)] = st.addr,
              ![RemOf(ch)] = Sub32(@, st.transferred)]

\* faulty variant: the enable bit is not tested
cb_irq_remaining_only(r, ch) == r[RemOf(ch)] = Zero32

\* faulty variant: both callbacks test the playback channel's REMAINING
cb_irq_d_remaining(r, ch) ==
    TestBit(r[CtrlOf(ch)], CTRL_EN) /\ r[R_D_REMAINING] = Zero32

\* faulty variant: REMAINING is not tested
cb_irq_enabled_only(r, ch) == TestBit(r[CtrlOf(ch)], CTRL_EN)

\* the completion test after the update
cb_irq(r, ch) == TestBit(r[CtrlOf(ch)], CTRL_EN) /\ r[RemOf(ch)] = Zero32

\* the line a channel's completion is pulsed on
LineOf(ch) == IF ch = "D" THEN "dmar_irq" ELSE "dmaw_irq"

\* bytes the backend moved according to the calls made
RECURSIVE Moved(_)
Moved(calls) ==
    IF calls = <<>> THEN 0
    ELSE (IF Head(calls).call \in {"AUD_read", "AUD_write"}
          THEN Head(calls).ret ELSE 0) + Moved(Tail(calls))

\* faulty variant: the early return is missing
cb_return_early_never(temp) == FALSE

\* if (temp == 0) return;
cb_return_early(temp) == temp = Zero32

\* a capacity callback of channel ch whose loop, when entered, ends in st
Callback(ch, name, avail_b, temp, st) ==
    /\ op' = [name |-> name, avail |-> avail_b]
    /\ ret' = NoRet
    /\ UNCHANGED <<voice_out_active, voice_in_active>>
    /\ IF cb_return_early(temp)
       THEN /\ pulses' = NoPulse
            /\ io' = <<>>
            /\ UNCHANGED <<regs, xfer, aborted>>
       ELSE IF st.trap
       THEN \* the emulator ended inside the loop: the calls were made, the
            \* registers were not stored
            /\ aborted' = TRUE
            /\ pulses' = NoPulse
            /\ io' = st.io
            /\ xfer' = [xfer EXCEPT ![ch].moved = @ + Moved(st.io)]
            /\ UNCHANGED regs
       ELSE LET r1 == cb_regs(regs, ch, st)
            IN  /\ regs' = r1
                /\ pulses' = IF cb_irq(r1, ch)
                             THEN qemu_irq_pulse(NoPulse, LineOf(ch))
                             ELSE NoPulse
                /\ io' = st.io
                /\ xfer' = [xfer EXCEPT ![ch].moved = @ + Moved(st.io)]
                /\ UNCHANGED aborted
    /\ Scenario

\* faulty variant: the cursor is loaded from the playback channel's ADDR
InCb_d_addr(avail_b, room, ub) ==
    LET temp == cb_temp(regs[R_U_REMAINING], avail_b)
    IN  \E st \in {in_cb_loop(LoopStart(temp, regs[R_D_ADDR]), room, ub)} :
            Callback("U", "in_cb", avail_b, temp, st)

InCb(avail_b, room, ub) ==
    LET temp == cb_temp(regs[R_U_REMAINING], avail_b)
    IN  \E st \in {in_cb_loop(LoopStart(temp, regs[R_U_ADDR]), room, ub)} :
            Callback("U", "in_cb", avail_b, temp, st)

OutCb(free_b, room, ub) ==
    LET temp == cb_temp(regs[R_D_REMAINING], free_b)
    IN  \E st \in {out_cb_loop(LoopStart(temp, regs[R_D_ADDR]), room, ub)} :
            Callback("D", "out_cb", free_b, temp, st)

(***************************************************************************)
(* milkymist_ac97_reset                                                    *)
(***************************************************************************)
\* faulty variant: the loop stops one register early
milkymist_ac97_reset_regs_short(r) ==
    [i \in RegIdx |-> IF i < R_MAX - 1 THEN Zero32 ELSE r[i]]

\* for (i = 0; i < R_MAX; i++) s->regs[i] = 0;
milkymist_ac97_reset_regs(r) == [i \in RegIdx |-> IF i < R_MAX THEN Zero32 ELSE r[i]]

Reset ==
    /\ regs' = milkymist_ac97_reset_regs(regs)
    /\ voice_in_active' = FALSE
    /\ voice_out_active' = FALSE
    /\ op' = [name |-> "reset"]
    /\ ret' = NoRet
    /\ pulses' = NoPulse
    /\ io' = <<>>
    /\ ncb' = 0
    /\ xfer' = Programmed(regs')
    /\ UNCHANGED aborted
    /\ Scenario

(***************************************************************************)
(* vmstate load of regs[] followed by ac97_post_load                       *)
(***************************************************************************)
\* a persisted register array: AC97_CTRL, the playback channel's CTRL, ADDR
\* and REMAINING, the reserved slot, the record channel's three registers
Snap(c, dc, da, dr, rsv, uc, ua, ur) ==
    [i \in RegIdx |->
        CASE i = R_AC97_CTRL -> c
          [] i = R_D_CTRL -> dc
          [] i = R_D_ADDR -> da
          [] i = R_D_REMAINING -> dr
          [] i = R_RESERVED -> rsv
          [] i = R_U_CTRL -> uc
          [] i = R_U_ADDR -> ua
          [] i = R_U_REMAINING -> ur
          [] OTHER -> Zero32]

\* the register file ac97_post_load leaves: it writes no register
ac97_post_load_regs(r) == r

\* registers and voices after ac97_post_load
ac97_post_load_state(s) ==
    update_voices(DevState(ac97_post_load_regs(s.regs), s.out, s.in))

Restore(snap) ==
    LET s1 == ac97_post_load_state(
                  DevState(snap, voice_out_active, voice_in_active))
    IN  /\ regs' = s1.regs
        /\ voice_out_active' = s1.out
        /\ voice_in_active' = s1.in
        /\ op' = [name |-> "post_load", snap |-> snap]
        /\ ret' = W(0)
        /\ pulses' = NoPulse
        /\ io' = <<>>
        /\ ncb' = 0
        /\ xfer' = Programmed(regs')
        /\ UNCHANGED aborted
        /\ Scenario

(***************************************************************************)
(* The device                                                              *)
(***************************************************************************)
\* after milkymist_ac97_init and the reset qdev runs at creation
Init ==
    /\ regs = [i \in RegIdx |-> Zero32]
    /\ voice_out_active = FALSE
    /\ voice_in_active = FALSE
    /\ op = [name |-> "init"]
    /\ ret = NoRet
    /\ pulses = NoPulse
    /\ io = <<>>
    /\ ncb = 0
    /\ xfer = Programmed([i \in RegIdx |-> Zero32])
    /\ e2e = 1
    /\ aborted = FALSE

\* the backend delivers a capacity callback to channel ch: where the domain
\* counts them, at most MaxCallbacks that offer bytes to a channel with bytes
\* remaining between two resets/restores
Delivers(d, ch, avail_b) ==
    IF d.counted /\ regs[RemOf(ch)] # Zero32 /\ avail_b # Zero32
    THEN ncb < MaxCallbacks /\ ncb' = ncb + 1
    ELSE ncb' = ncb

\* one step of the device, the inputs drawn from d:
\*   d.rd, d.wr   register indices the guest reads and writes
\*   d.vals       the values it writes, per register
\*   d.offers     byte counts the backend offers (int avail_b / free_b)
\*   d.snaps      persisted register arrays that are restored
\*   d.counted    whether MaxCallbacks limits the backend's callbacks
\* nothing runs once the emulator has ended
Step(d) ==
    /\ ~aborted
    /\ \/ \E idx \in d.rd : Read(ByteAddr(idx))
       \/ \E idx \in d.wr : \E value \in d.vals[idx] :
              Write(ByteAddr(idx), value)
       \/ \E avail_b \in d.offers : \E room \in Rooms :
          \E ub \in Outcomes(cb_temp(regs[R_U_REMAINING], avail_b)) :
              Delivers(d, "U", avail_b) /\ InCb(avail_b, room, ub)
       \/ \E free_b \in d.offers : \E room \in Rooms :
          \E ub \in Outcomes(cb_temp(regs[R_D_REMAINING], free_b)) :
              Delivers(d, "D", free_b) /\ OutCb(free_b, room, ub)
       \/ Reset
       \/ \E snap \in d.snaps : Restore(snap)

AllIdx == 0 .. MaxIdx
UnknownIdx == AllIdx \ ReadableRegs

\* a playback transfer in progress, as persisted
SnapPlaying == Snap(W(0), W(1), W(4096), W(8192), W(0), W(0), W(0), W(0))
\* stray bits everywhere, a non-zero reserved slot, a record buffer that ends
\* at the top of the address space
SnapStray ==
    Snap(AllOnes32, W(2), W(0), W(0), W(5), W(3), HL(65535, 61440), W(4096))

\* the register file: the guest reads every index and writes the command
\* and control registers, the reserved slot and the indices past the array;
\* the other registers get their values from the restored snapshots
RegDomain ==
    [rd |-> AllIdx,
     wr |-> {R_AC97_CTRL, R_AC97_ADDR, R_D_CTRL, R_U_CTRL} \cup UnknownIdx,
     vals |-> [idx \in AllIdx |->
                 CASE idx = R_AC97_CTRL -> {W(0), W(1), W(2), W(3), AllOnes32}
                   [] idx \in CtrlRegs -> {W(0), W(1), W(2), W(3)}
                   [] OTHER -> {W(4096)}],
     offers |-> {W(4096)},
     snaps |-> {SnapPlaying, SnapStray},
     counted |-> TRUE]

\* the DMA engines: the guest programs the channels, the backend offers and
\* moves every amount
DmaDomain ==
    [rd |-> {R_D_REMAINING, R_U_REMAINING},
     wr |-> {R_D_CTRL, R_D_ADDR, R_D_REMAINING, R_U_CTRL, R_U_REMAINING},
     vals |-> [idx \in AllIdx |->
                 CASE idx \in CtrlRegs -> {W(0), W(1)}
                   [] idx = R_D_ADDR -> {W(4096)}
                   [] OTHER -> {W(8192)}],
     offers |-> {W(0), W(100), W(4096), W(8192)},
     snaps |-> {SnapPlaying},
     counted |-> TRUE]

Next == Step(RegDomain)

Spec == Init /\ [][Next]_vars

NextDma == Step(DmaDomain)

SpecDma == Init /\ [][NextDma]_vars

\* 2^31 as a register value, INT_MIN as an offer
IntMin32 == HL(SignBit, 0)
\* INT_MAX
IntMax32 == HL(SignBit - 1, Half - 1)
\* the last page of the 32-bit address space
TopPage == HL(Half - 1, Half - BufSize)

\* the full width of the registers and of the offer: the guest programs
\* buffers at the top of the address space with REMAINING up to 2^32 - 1, the
\* backend's int argument takes every sign
WideDomain ==
    [rd |-> {R_D_ADDR},
     wr |-> {R_D_CTRL, R_D_ADDR, R_D_REMAINING, R_U_REMAINING},
     vals |-> [idx \in AllIdx |->
                 CASE idx \in CtrlRegs -> {W(1)}
                   [] idx = R_D_ADDR -> {TopPage}
                   [] OTHER -> {W(8192), IntMin32}],
     offers |-> {IntMax32, IntMin32, AllOnes32},
     snaps |-> {SnapStray},
     counted |-> TRUE]

NextWide == Step(WideDomain)

SpecWide == Init /\ [][NextWide]_vars

\* both channels in the middle of a transfer, as persisted
SnapBoth ==
    Snap(W(0), W(1), W(4096), W(8192), W(0), W(1), W(3 * BufSize), W(8192))

\* transfers run to their end: the backend calls as often as it takes and
\* offers nothing or two buffers; the guest starts and stops the channels
\* and leaves ADDR and REMAINING to the restored snapshot
LiveDomain ==
    [rd |-> {R_D_REMAINING},
     wr |-> CtrlRegs,
     vals |-> [idx \in AllIdx |-> {W(0), W(1)}],
     offers |-> {W(0), W(8192)},
     snaps |-> {SnapBoth},
     counted |-> FALSE]

NextLive == Step(LiveDomain)

\* a callback of channel ch that offers bytes to a backend that moves some
Progress(ch) ==
    /\ ~aborted
    /\ \E avail_b \in LiveDomain.offers \ {Zero32} :
       \E room \in Rooms \ {0} :
       \E ub \in Outcomes(cb_temp(regs[RemOf(ch)], avail_b)) :
           /\ Delivers(LiveDomain, ch, avail_b)
           /\ IF ch = "D" THEN OutCb(avail_b, room, ub)
                          ELSE InCb(avail_b, room, ub)

\* the backend keeps calling each voice's callback with a non-zero offer and
\* keeps moving bytes
SpecLive ==
    /\ Init
    /\ [][NextLive]_vars
    /\ \A ch \in Channels : WF_vars(Progress(ch))

\* the pass-through registers: the guest writes each of them and reads
\* every defined register; the backend has nothing to offer
PassDomain ==
    [rd |-> ReadableRegs,
     wr |-> PlainRegs,
     vals |-> [idx \in AllIdx |->
                 CASE idx \in {R_AC97_DATAOUT, R_U_REMAINING}
                        -> {W(1), AllOnes32}
                   [] OTHER -> {AllOnes32}],
     offers |-> {W(0)},
     snaps |-> {SnapStray},
     counted |-> TRUE]

NextPass == Step(PassDomain)

SpecPass == Init /\ [][NextPass]_vars

(***************************************************************************)
(* Properties                                                              *)
(***************************************************************************)
\* bit 0 of a word, and the word with bit 0 cleared
Bit0(w) == w[2] % 2 = 1
Bit1(w) == (w[2] \div 2) % 2 = 1
WithoutBit0(w) == <<w[1], w[2] - (w[2] % 2)>>

\* unsigned a <= b
ULe(a, b) == a[1] < b[1] \/ (a[1] = b[1] /\ a[2] <= b[2])

\* exactly one pulse, on the given line
OnePulseOn(line) == [l \in Lines |-> IF l = line THEN 1 ELSE 0]

CbName(ch) == IF ch = "D" THEN "out_cb" ELSE "in_cb"

\* C1: monotonic DMA progress.  For each channel programmed with ADDR = A
\* and REMAINING = N, after any sequence of capacity callbacks with no guest
\* write to the channel's registers in between, the bytes the backend moved
\* in total do not exceed N, ADDR is A plus the bytes moved (modulo 2^32),
\* REMAINING is N minus the bytes moved, and that difference never wrapped
\* below zero.  xfer[ch].moved sums what the AUD_read / AUD_write calls
\* returned, so the conjuncts hold after every single invocation as well.
C1_MonotonicProgress ==
    \A ch \in Channels :
        LET x == xfer[ch]
        IN  /\ ULe(W(x.moved), x.rem)
            /\ regs[AddrOf(ch)] = Add32(x.addr, W(x.moved))
            /\ regs[RemOf(ch)] = Sub32(x.rem, W(x.moved))
            /\ ULe(regs[RemOf(ch)], x.rem)

\* an enabled channel that moved bytes in two callbacks, the second one
\* spanning more than one chunk, and is not yet done
C1_Witness ==
    /\ op.name = "in_cb"
    /\ Bit0(regs[R_U_CTRL])
    /\ ncb = 2
    /\ Len(io) > 2
    /\ xfer["U"].moved > BufSize
    /\ regs[R_U_REMAINING] # Zero32

\* C2 as stated: an enabled channel with REMAINING = K > 0 that is offered at
\* least K bytes pulses its completion line exactly once in that callback.
C2_PulseWheneverOffered ==
    [][\A ch \in Channels :
          (/\ op'.name = CbName(ch)
           /\ Bit0(regs[CtrlOf(ch)])
           /\ regs[RemOf(ch)] # Zero32
           /\ ULe(regs[RemOf(ch)], op'.avail))
          => pulses' = OnePulseOn(LineOf(ch))]_vars

\* C2, amended: an enabled channel with REMAINING = K > 0 that is offered at
\* least K bytes, and whose backend moves all K bytes in that callback,
\* pulses its completion line exactly once and no other line; a completion
\* line is pulsed only by its channel's callback, once, in a call in which
\* REMAINING goes from non-zero to exactly 0 with the channel enabled; a
\* callback on a channel whose REMAINING is already 0 pulses nothing.
C2_PulseOncePerDepletion ==
    [][\A ch \in Channels :
          /\ (/\ op'.name = CbName(ch)
              /\ Bit0(regs[CtrlOf(ch)])
              /\ regs[RemOf(ch)] # Zero32
              /\ ULe(regs[RemOf(ch)], op'.avail)
              /\ W(Moved(io')) = regs[RemOf(ch)])
             => pulses' = OnePulseOn(LineOf(ch))
          /\ pulses'[LineOf(ch)] > 0
             => /\ op'.name = CbName(ch)
                /\ pulses' = OnePulseOn(LineOf(ch))
                /\ Bit0(regs'[CtrlOf(ch)])
                /\ regs[RemOf(ch)] # Zero32
                /\ regs'[RemOf(ch)] = Zero32
          /\ (op'.name = CbName(ch) /\ regs[RemOf(ch)] = Zero32)
             => pulses' = NoPulse]_vars

\* a playback callback that was offered two chunks, moved them and pulsed
C2_Witness ==
    /\ op = [name |-> "out_cb", avail |-> W(8192)]
    /\ Moved(io) = 8192
    /\ regs[R_D_REMAINING] = Zero32
    /\ pulses = OnePulseOn("dmar_irq")

\* C3: in every reachable state the output voice is active iff bit 0 of
\* D_CTRL is set and the input voice is active iff bit 0 of U_CTRL is set.
C3_VoicesFollowEnableBits ==
    /\ voice_out_active <=> Bit0(regs[R_D_CTRL])
    /\ voice_in_active <=> Bit0(regs[R_U_CTRL])

\* a control write after which one voice is active under a value other than
\* 1 and the other inactive under a value other than 0
C3_Witness ==
    /\ op.name = "write"
    /\ op.idx = R_D_CTRL
    /\ regs[R_D_CTRL] = W(3)
    /\ regs[R_U_CTRL] = W(2)
    /\ voice_out_active
    /\ ~voice_in_active

\* C4: a read of AC97_CTRL that follows a write of v to it returns v with
\* bit 0 cleared and every other bit as in v, whether or not bit 0 was set
\* in v and whether or not the write pulsed a line.
C4_SelfClearingRqen ==
    [][(/\ op.name = "write"
        /\ op.idx = R_AC97_CTRL
        /\ op'.name = "read"
        /\ op'.idx = R_AC97_CTRL)
       => ret' = WithoutBit0(op.value)]_vars

\* the read after a write of 0xFFFFFFFF
C4_Witness ==
    /\ op = [name |-> "read", idx |-> R_AC97_CTRL]
    /\ ret = HL(Half - 1, Half - 2)

\* C5: a write to AC97_CTRL with request-enable set pulses the reply line
\* once and nothing else when the direction bit is clear, the request line
\* once and nothing else when it is set; with request-enable clear it pulses
\* nothing.  In no case is a DMA completion line pulsed.
C5_OnePulsePerCommand ==
    (op.name = "write" /\ op.idx = R_AC97_CTRL)
    => /\ (Bit0(op.value) /\ ~Bit1(op.value))
          => pulses = OnePulseOn("crreply_irq")
       /\ (Bit0(op.value) /\ Bit1(op.value))
          => pulses = OnePulseOn("crrequest_irq")
       /\ ~Bit0(op.value) => pulses = NoPulse
       /\ pulses["dmar_irq"] = 0
       /\ pulses["dmaw_irq"] = 0

\* a command write with both bits set, which pulsed the request line
C5_Witness ==
    /\ op = [name |-> "write", idx |-> R_AC97_CTRL, value |-> W(3)]
    /\ pulses["crrequest_irq"] = 1

\* the register file of the playback scenario: D_CTRL = 1, the given D_ADDR
\* and D_REMAINING, every other register zero
PlaybackRegs(d_addr, d_remaining) ==
    Snap(W(0), W(1), d_addr, d_remaining, W(0), W(0), W(0), W(0))

\* C6: the end-to-end playback scenario.  From reset, after the writes
\* D_ADDR = 0x1000, D_REMAINING = 8192, D_CTRL = 1 and playback callbacks
\* offering 4096, 4096 and 100 bytes that the backend accepts in full,
\* D_ADDR is 0x1000, 0x2000, 0x3000, 0x3000 and D_REMAINING 8192, 4096, 0, 0
\* before the first and after each callback; the first callback pulses
\* nothing, the second pulses the playback-completion line once, the third
\* pulses nothing, calls neither the backend nor guest memory and leaves the
\* registers and both voices as the second left them.
C6_PlaybackScenario ==
    /\ e2e = 4 => regs = PlaybackRegs(W(4096), W(8192))
    /\ e2e = 5 => /\ regs = PlaybackRegs(W(8192), W(4096))
                  /\ pulses = NoPulse
    /\ e2e = 6 => /\ regs = PlaybackRegs(W(12288), W(0))
                  /\ pulses = OnePulseOn("dmar_irq")
    /\ e2e = 7 => /\ regs = PlaybackRegs(W(12288), W(0))
                  /\ pulses = NoPulse
                  /\ io = <<>>
    /\ e2e \in 4 .. 7 => voice_out_active /\ ~voice_in_active

\* the scenario was run to its end
C6_Witness == e2e = 7

\* C7: after a restore every register equals its value in the snapshot, the
\* playback voice is active iff bit 0 of the snapshot's D_CTRL is set, the
\* record voice is active iff bit 0 of the snapshot's U_CTRL is set, and no
\* interrupt line was pulsed.
C7_RestoreKeepsRegisters ==
    op.name = "post_load"
    => /\ \A i \in RegIdx : regs[i] = op.snap[i]
       /\ voice_out_active <=> Bit0(op.snap[R_D_CTRL])
       /\ voice_in_active <=> Bit0(op.snap[R_U_CTRL])
       /\ pulses = NoPulse

\* restored with D_CTRL enabled and U_CTRL disabled: playback active, record
\* inactive
C7_Witness ==
    /\ op.name = "post_load"
    /\ Bit0(op.snap[R_D_CTRL])
    /\ ~Bit0(op.snap[R_U_CTRL])
    /\ regs[R_D_REMAINING] = W(8192)
    /\ voice_out_active
    /\ ~voice_in_active

\* C8: reset leaves every register, the reserved slot included, zero and
\* both voices inactive, and pulses no line; a reset that follows a reset
\* changes nothing.
C8_ResetIdempotent ==
    [][op'.name = "reset"
       => /\ \A i \in RegIdx : regs'[i] = Zero32
          /\ ~voice_out_active'
          /\ ~voice_in_active'
          /\ pulses' = NoPulse
          /\ op.name = "reset"
             => UNCHANGED <<regs, voice_out_active, voice_in_active>>]_vars

\* a reset has run
C8_Witness ==
    /\ op.name = "reset"
    /\ \A i \in RegIdx : regs[i] = Zero32
    /\ ~voice_out_active
    /\ ~voice_in_active

\* C9: a read of index 7 or of an index >= 11 returns 0, a write there
\* stores nothing; neither changes a register, a voice or pulses a line.
C9_UnknownRegisterNoOp ==
    [][(/\ op'.name \in {"read", "write"}
        /\ (op'.idx = 7 \/ op'.idx >= 11))
       => /\ op'.name = "read" => ret' = Zero32
          /\ UNCHANGED <<regs, voice_out_active, voice_in_active>>
          /\ pulses' = NoPulse]_vars

\* the reserved slot read as 0 while it holds another value
C9_Witness ==
    /\ op = [name |-> "read", idx |-> R_RESERVED]
    /\ regs[R_RESERVED] # Zero32
    /\ ret = Zero32

\* C10: a capacity callback entered with REMAINING = 0 or with an offer of 0
\* calls neither the backend nor guest memory, leaves every register
\* unchanged and pulses no line, whether or not the channel is enabled.
C10_ZeroLengthIgnored ==
    [][\A ch \in Channels :
          (/\ op'.name = CbName(ch)
           /\ (regs[RemOf(ch)] = Zero32 \/ op'.avail = Zero32))
          => /\ io' = <<>>
             /\ UNCHANGED <<regs, voice_out_active, voice_in_active>>
             /\ pulses' = NoPulse]_vars

\* a callback offering bytes to an enabled channel with nothing remaining
C10_Witness ==
    /\ op.name = "out_cb"
    /\ op.avail # Zero32
    /\ Bit0(regs[R_D_CTRL])
    /\ regs[R_D_REMAINING] = Zero32
    /\ io = <<>>
    /\ pulses = NoPulse

\* the backend calls among the calls of a callback
IsAud(c) == c.call \in {"AUD_read", "AUD_write"}

\* a callback's calls end with a backend call that moved nothing
EndsShort(calls) ==
    /\ calls # <<>>
    /\ IsAud(calls[Len(calls)])
    /\ calls[Len(calls)].ret = 0

\* the guest-memory accesses among the calls, in order
MemCalls(calls) == SelectSeq(calls, LAMBDA c : ~IsAud(c))

\* the handlers that may change a channel's ADDR and REMAINING
ChangesChannel(o, ch) ==
    \/ o.name \in {CbName(ch), "reset", "post_load"}
    \/ o.name = "write" /\ o.idx \in RegsOf(ch)

\* C11: a backend call that returns 0 inside a capacity callback is the
\* callback's last call.  ADDR and REMAINING are then updated by exactly the
\* bytes the calls before it moved (possibly none), and a completion line is
\* pulsed only if REMAINING became 0.  The remainder stays in REMAINING until
\* the channel's next callback: no read, no write to another register and no
\* callback of the other channel changes the channel's ADDR or REMAINING, and
\* every callback's first guest-memory access is at the ADDR it finds.
C11_ShortTransferRetried ==
    [][\A ch \in Channels :
          /\ op'.name = CbName(ch)
             => /\ \A i \in 1 .. Len(io') :
                      (IsAud(io'[i]) /\ io'[i].ret = 0) => i = Len(io')
                /\ EndsShort(io')
                   => /\ regs'[AddrOf(ch)]
                           = Add32(regs[AddrOf(ch)], W(Moved(io')))
                      /\ regs'[RemOf(ch)]
                           = Sub32(regs[RemOf(ch)], W(Moved(io')))
                      /\ ULe(W(Moved(io')), regs[RemOf(ch)])
                      /\ pulses' # NoPulse => regs'[RemOf(ch)] = Zero32
                /\ MemCalls(io') # <<>>
                   => MemCalls(io')[1].addr = regs[AddrOf(ch)]
          /\ ~ChangesChannel(op', ch)
             => /\ regs'[AddrOf(ch)] = regs[AddrOf(ch)]
                /\ regs'[RemOf(ch)] = regs[RemOf(ch)]]_vars

\* a playback callback that resumes, at 0x1000 + 5000, the transfer an
\* earlier callback left when the backend stopped accepting after 5000 of
\* the 8192 bytes offered
C11_Witness ==
    /\ op.name = "out_cb"
    /\ ncb = 2
    /\ Moved(io) > 0
    /\ xfer["D"].moved - Moved(io) = 5000
    /\ xfer["D"].rem = W(8192)
    /\ io[1] = [call |-> "cpu_physical_memory_read",
                addr |-> W(4096 + 5000), len |-> io[1].len]

\* the device as the handlers find it
Cur == DevState(regs, voice_out_active, voice_in_active)

\* values written to a control register: the enable bit set and clear, with
\* and without other bits
CtrlValues == {W(0), W(1), W(2), W(3), AllOnes32}

\* C12: in every reachable state, for every write w to D_CTRL or U_CTRL, the
\* restore recomputation followed by w leaves the same registers and the
\* same activity of both voices as w followed by the restore recomputation.
C12_RestoreWriteCommute ==
    \A idx \in CtrlRegs : \A value \in CtrlValues :
        ac97_write_state(ac97_post_load_state(Cur), idx, value)
            = ac97_post_load_state(ac97_write_state(Cur, idx, value))

\* just restored with record active and playback inactive; the write of 1 to
\* D_CTRL activates playback in either order
C12_Witness ==
    /\ op.name = "post_load"
    /\ voice_in_active
    /\ ~voice_out_active
    /\ ac97_write_state(ac97_post_load_state(Cur), R_D_CTRL, W(1)).out
    /\ ac97_post_load_state(ac97_write_state(Cur, R_D_CTRL, W(1))).out

\* want = min(REMAINING, offer), REMAINING an unsigned word and the offer a
\* signed one, covers n bytes; a negative offer covers none
WantCovers(remaining, avail_b, n) ==
    IF IsNeg(avail_b)
    THEN n = 0
    ELSE ULe(W(n), remaining) /\ ULe(W(n), avail_b)

\* C13: for every unsigned REMAINING and every signed offer, the bytes moved
\* in one capacity callback are at most want = min(REMAINING, offer), and
\* REMAINING decreases by no more than the bytes moved, without wrapping
\* below zero.
C13_BoundedByWant ==
    [][\A ch \in Channels :
          op'.name = CbName(ch)
          => /\ WantCovers(regs[RemOf(ch)], op'.avail, Moved(io'))
             /\ ULe(regs'[RemOf(ch)], regs[RemOf(ch)])
             /\ ULe(Sub32(regs[RemOf(ch)], regs'[RemOf(ch)]), W(Moved(io')))]_vars

\* C13 for the offers a backend makes: with an offer of at least 0 the bytes
\* moved are at most min(REMAINING, offer) for every REMAINING, and REMAINING
\* decreases by exactly the bytes moved.
C13_BoundedForOffersFromZero ==
    [][\A ch \in Channels :
          (op'.name = CbName(ch) /\ ~IsNeg(op'.avail))
          => /\ WantCovers(regs[RemOf(ch)], op'.avail, Moved(io'))
             /\ regs'[RemOf(ch)] = Sub32(regs[RemOf(ch)], W(Moved(io')))
             /\ ~aborted']_vars

\* a record callback offered -1 bytes that moved 8192 bytes
C13_NegativeOfferMoves ==
    /\ op = [name |-> "in_cb", avail |-> AllOnes32]
    /\ Moved(io) = 8192

\* a signed overflow of temp ended the emulator: REMAINING = 2^31, offer -1
C13_OverflowTrapped ==
    /\ aborted
    /\ op.avail = AllOnes32
    /\ Moved(io) = BufSize

\* a + n stays below 2^32
Fits32(a, n) == a[1] + (a[2] + n) \div Half < Half

\* C14 as stated: for every ADDR and REMAINING, ADDR after a capacity
\* callback is greater than or equal to ADDR before it, and equal only when
\* no bytes were moved.
C14_AddrNeverDecreases ==
    [][\A ch \in Channels :
          (op'.name = CbName(ch) /\ ~aborted')
          => /\ ULe(regs[AddrOf(ch)], regs'[AddrOf(ch)])
             /\ regs'[AddrOf(ch)] = regs[AddrOf(ch)] => Moved(io') = 0]_vars

\* C14, amended: for every ADDR and REMAINING, ADDR after a capacity
\* callback that returns is ADDR before it plus the bytes moved, modulo 2^32,
\* and equals ADDR before only when no bytes were moved; it is greater than
\* or equal to ADDR before unless that sum passes 2^32 - 1, where the cursor
\* wraps to the bottom of the address space and is below ADDR before.
C14_AddrAdvancesModulo ==
    [][\A ch \in Channels :
          (op'.name = CbName(ch) /\ ~aborted')
          => /\ regs'[AddrOf(ch)] = Add32(regs[AddrOf(ch)], W(Moved(io')))
             /\ regs'[AddrOf(ch)] = regs[AddrOf(ch)] => Moved(io') = 0
             /\ Fits32(regs[AddrOf(ch)], Moved(io'))
                <=> ULe(regs[AddrOf(ch)], regs'[AddrOf(ch)])]_vars

\* a playback callback that moved the 8192 bytes of a buffer programmed at
\* 0xFFFFF000: the cursor is at 0x1000
C14_Witness ==
    /\ op.name = "out_cb"
    /\ xfer["D"].addr = TopPage
    /\ Moved(io) = 2 * BufSize
    /\ xfer["D"].moved = 2 * BufSize
    /\ regs[R_D_ADDR] = W(BufSize)

\* a guest write to the channel's CTRL register
IsCtrlWrite(o, ch) == o.name = "write" /\ o.idx = CtrlOf(ch)

\* C15 as stated: across reads, writes, callbacks, reset and restore, bit 0
\* of a channel's CTRL register changes only in a guest write to that
\* register, and the voice is notified of the new state in the same step.
C15_OnlyCtrlWrites ==
    [][\A ch \in Channels :
          Bit0(regs'[CtrlOf(ch)]) # Bit0(regs[CtrlOf(ch)])
          => /\ IsCtrlWrite(op', ch)
             /\ (IF ch = "D" THEN voice_out_active' ELSE voice_in_active')
                  = Bit0(regs'[CtrlOf(ch)])]_vars

\* C15, amended: bit 0 of a channel's CTRL register changes only in a guest
\* write to that register, in a reset (which clears it) or in a restore
\* (which loads it from the snapshot); no read, no write to another
\* register and no capacity callback, completing or not, changes it.  In
\* every step that changes it the voice, which had the old state, is given
\* the new one.
C15_CtrlWriteResetRestore ==
    [][\A ch \in Channels :
          Bit0(regs'[CtrlOf(ch)]) # Bit0(regs[CtrlOf(ch)])
          => /\ \/ IsCtrlWrite(op', ch)
                \/ op'.name = "reset" /\ ~Bit0(regs'[CtrlOf(ch)])
                \/ op'.name = "post_load"
                   /\ Bit0(regs'[CtrlOf(ch)]) = Bit0(op'.snap[CtrlOf(ch)])
             /\ (IF ch = "D" THEN voice_out_active ELSE voice_in_active)
                  = Bit0(regs[CtrlOf(ch)])
             /\ (IF ch = "D" THEN voice_out_active' ELSE voice_in_active')
                  = Bit0(regs'[CtrlOf(ch)])]_vars

\* the write of 1 to D_CTRL that follows a reset and the programming of the
\* buffer: playback went from idle to active and the voice is active
C15_Witness ==
    /\ e2e = 4
    /\ op = [name |-> "write", idx |-> R_D_CTRL, value |-> W(1)]
    /\ Bit0(regs[R_D_CTRL])
    /\ voice_out_active

\* channel ch is enabled with bytes remaining
Transferring(ch) == Bit0(regs[CtrlOf(ch)]) /\ regs[RemOf(ch)] # Zero32

\* the handler that ran last reprogrammed channel ch: a guest write to one
\* of its registers, a reset, or a restore, which loads all of them
Disturbed(ch) ==
    \/ op.name \in {"reset", "post_load"}
    \/ op.name = "write" /\ op.idx \in RegsOf(ch)

\* the callback that ran last completed channel ch's transfer
Completed(ch) ==
    /\ op.name = CbName(ch)
    /\ regs[RemOf(ch)] = Zero32
    /\ pulses = OnePulseOn(LineOf(ch))

\* C16: if a channel is enabled with REMAINING > 0 and from then on nothing
\* reprograms it, then, the backend calling its callback again and again
\* with a non-zero offer and moving at least one byte, REMAINING reaches 0
\* and the channel's completion line is pulsed.  It is pulsed once for the
\* transfer: a line is pulsed only once per callback and only in the
\* callback that takes REMAINING from non-zero to 0, and REMAINING stays 0
\* until the channel is reprogrammed.
C16_EventualCompletion ==
    /\ \A ch \in Channels :
          (Transferring(ch) /\ ~Disturbed(ch))
              ~> (Completed(ch) \/ Disturbed(ch))
    /\ [][\A ch \in Channels :
            /\ pulses'[LineOf(ch)] > 0
               => /\ op'.name = CbName(ch)
                  /\ pulses' = OnePulseOn(LineOf(ch))
                  /\ regs[RemOf(ch)] # Zero32
                  /\ regs'[RemOf(ch)] = Zero32
            /\ (regs[RemOf(ch)] = Zero32 /\ ~ChangesChannel(op', ch))
               => regs'[RemOf(ch)] = Zero32]_vars

\* the record channel's transfer completed in the callback that followed
\* one in which the backend supplied 5000 of the 8192 bytes
C16_Witness ==
    /\ Completed("U")
    /\ xfer["U"].moved = 8192
    /\ Moved(io) = 8192 - 5000

\* C17: a write of v to AC97_ADDR, AC97_DATAOUT, AC97_DATAIN, D_ADDR,
\* D_REMAINING, U_ADDR or U_REMAINING stores exactly v there, changes no
\* other register and no voice, and pulses no line; a read of a defined
\* register returns the stored value, changes no register and no voice, and
\* pulses no line.
C17_PassThrough ==
    [][/\ (op'.name = "write" /\ op'.idx \in PlainRegs)
          => /\ regs' = [regs EXCEPT ![op'.idx] = op'.value]
             /\ UNCHANGED <<voice_out_active, voice_in_active>>
             /\ pulses' = NoPulse
       /\ (op'.name = "read" /\ op'.idx \in ReadableRegs)
          => /\ ret' = regs[op'.idx]
             /\ UNCHANGED <<regs, voice_out_active, voice_in_active>>
             /\ pulses' = NoPulse]_vars

\* a read of AC97_DATAIN that returns the 0xFFFFFFFF written there, with
\* U_ADDR written as well and the record voice active
C17_Witness ==
    /\ op = [name |-> "read", idx |-> R_AC97_DATAIN]
    /\ ret = AllOnes32
    /\ regs[R_U_ADDR] = AllOnes32
    /\ voice_in_active

\* the smaller of two unsigned words
MinU(a, b) == IF ULe(a, b) THEN a ELSE b

\* C18: a capacity callback on a channel whose enable bit is clear moves
\* what the backend accepts of min(REMAINING, offer) bytes, all of them when
\* the backend accepts every request in full, advances ADDR and decreases
\* REMAINING by the bytes moved, and pulses no line, also when REMAINING
\* reaches 0.  A completion line is pulsed only by a callback that finds its
\* channel enabled with REMAINING non-zero: once REMAINING is 0, neither
\* enabling the channel nor any later callback pulses for that depletion.
C18_TransferIgnoresEnable ==
    [][\A ch \in Channels :
          /\ (op'.name = CbName(ch) /\ ~Bit0(regs[CtrlOf(ch)]))
             => /\ ULe(W(Moved(io')), MinU(regs[RemOf(ch)], op'.avail))
                /\ FullyAccepted(io')
                   => W(Moved(io')) = MinU(regs[RemOf(ch)], op'.avail)
                /\ regs'[AddrOf(ch)] = Add32(regs[AddrOf(ch)], W(Moved(io')))
                /\ regs'[RemOf(ch)] = Sub32(regs[RemOf(ch)], W(Moved(io')))
                /\ pulses' = NoPulse
          /\ pulses'[LineOf(ch)] > 0
             => /\ op'.name = CbName(ch)
                /\ Bit0(regs[CtrlOf(ch)])
                /\ regs[RemOf(ch)] # Zero32
          /\ (regs[RemOf(ch)] = Zero32
              /\ (op'.name = CbName(ch) \/ IsCtrlWrite(op', ch)))
             => /\ pulses' = NoPulse
                /\ regs'[RemOf(ch)] = Zero32]_vars

\* a record callback that moved the last 8192 bytes of a disabled channel
\* and pulsed nothing
C18_Witness ==
    /\ op.name = "in_cb"
    /\ ~Bit0(regs[R_U_CTRL])
    /\ Moved(io) = 8192
    /\ regs[R_U_REMAINING] = Zero32
    /\ pulses = NoPulse

\* the bytes the first n of the accesses ws cover
RECURSIVE SumLen(_, _)
SumLen(ws, n) == IF n = 0 THEN 0 ELSE ws[n].len + SumLen(ws, n - 1)

\* every guest-memory write among the calls directly follows the AUD_read
\* that acquired its bytes, and writes as many
WritesWhatWasRead(calls) ==
    \A i \in 1 .. Len(calls) :
        calls[i].call = "cpu_physical_memory_write"
        => /\ i > 1
           /\ calls[i - 1].call = "AUD_read"
           /\ calls[i - 1].ret = calls[i].len
           /\ calls[i].len > 0

\* the accesses ws follow one another from address a on, modulo 2^32
Contiguous(ws, a) ==
    \A i \in 1 .. Len(ws) : ws[i].addr = Add32(a, W(SumLen(ws, i - 1)))

\* C19 as stated: in a record callback entered with U_ADDR = A and
\* U_REMAINING = R every guest-memory write covers only bytes acquired from
\* the input voice, the writes are contiguous and in increasing address
\* order from A, their total length is the decrease of U_REMAINING and at
\* most R; a callback starts where the transfer's earlier callbacks ended,
\* and the transfer never covers more than the REMAINING it was programmed
\* with, so no byte is written twice.
C19_WritesInIncreasingOrder ==
    [][(op'.name = "in_cb" /\ ~aborted')
       => LET ws == MemCalls(io')
              total == SumLen(ws, Len(ws))
          IN  /\ WritesWhatWasRead(io')
              /\ Contiguous(ws, regs[R_U_ADDR])
              /\ \A i \in 1 .. Len(ws) : \A j \in 1 .. Len(ws) :
                    i < j => UGt(ws[j].addr, ws[i].addr)
              /\ W(total) = Sub32(regs[R_U_REMAINING], regs'[R_U_REMAINING])
              /\ ULe(W(total), regs[R_U_REMAINING])
              /\ regs[R_U_ADDR]
                   = Add32(xfer["U"].addr, W(xfer["U"].moved))
              /\ ULe(W(xfer'["U"].moved), xfer["U"].rem)]_vars

\* C19, amended: as stated, with addresses taken modulo 2^32: the writes are
\* contiguous from A modulo 2^32 and cover no more than R bytes; each write
\* is at a higher address than the ones before it, except that the writes
\* whose offset from A passes 2^32 - 1 continue from address 0, below the
\* writes before the top of the address space.
C19_WritesInsideBufferModulo ==
    [][(op'.name = "in_cb" /\ ~aborted')
       => LET ws == MemCalls(io')
              total == SumLen(ws, Len(ws))
          IN  /\ WritesWhatWasRead(io')
              /\ Contiguous(ws, regs[R_U_ADDR])
              /\ \A i \in 1 .. Len(ws) : \A j \in 1 .. Len(ws) :
                    i < j => (UGt(ws[j].addr, ws[i].addr)
                              <=> (Fits32(regs[R_U_ADDR], SumLen(ws, i - 1))
                                   <=> Fits32(regs[R_U_ADDR],
                                              SumLen(ws, j - 1))))
              /\ W(total) = Sub32(regs[R_U_REMAINING], regs'[R_U_REMAINING])
              /\ ULe(W(total), regs[R_U_REMAINING])
              /\ regs[R_U_ADDR]
                   = Add32(xfer["U"].addr, W(xfer["U"].moved))
              /\ ULe(W(xfer'["U"].moved), xfer["U"].rem)]_vars

\* a record callback that wrote the last page of the address space and then
\* the page at address 0
C19_Witness ==
    /\ op.name = "in_cb"
    /\ Len(MemCalls(io)) = 2
    /\ MemCalls(io)[1].addr = TopPage
    /\ MemCalls(io)[2].addr = Zero32
    /\ MemCalls(io)[2].len = BufSize

\* the backend calls among the calls, in order
AudCalls(calls) == SelectSeq(calls, IsAud)

\* the bytes the first n of the backend calls moved
RECURSIVE SumRet(_, _)
SumRet(as, n) == IF n = 0 THEN 0 ELSE as[n].ret + SumRet(as, n - 1)

\* C20: in a capacity callback with want = min(REMAINING, offer) > 0, every
\* backend call asks for between 1 and 4096 bytes and for no more than the
\* bytes of want not yet moved; every call but the last moved at least one
\* byte, so there are at most want calls; and the loop ends exactly when
\* want bytes have been moved or a call returned 0: the last call either
\* completed want or returned 0, and no call was made after either.
C20_BoundedChunks ==
    [][\A ch \in Channels :
          (/\ op'.name = CbName(ch)
           /\ regs[RemOf(ch)] # Zero32
           /\ op'.avail # Zero32
           /\ ~IsNeg(op'.avail))
          => LET want == MinU(regs[RemOf(ch)], op'.avail)
                 as == AudCalls(io')
             IN  /\ Len(as) >= 1
                 /\ \A i \in 1 .. Len(as) :
                       /\ as[i].len \in 1 .. BufSize
                       /\ as[i].ret \in 0 .. as[i].len
                       /\ ULe(W(as[i].len + SumRet(as, i - 1)), want)
                       /\ i < Len(as) => as[i].ret > 0
                 /\ (W(SumRet(as, Len(as))) = want) # (as[Len(as)].ret = 0)
                 /\ IsAud(io'[Len(io')])
                    \/ io'[Len(io')].call = "cpu_physical_memory_write"
                 /\ ULe(W(Len(as)), Add32(W(SumRet(as, Len(as))), W(1)))]_vars

\* a playback callback offered 8192 bytes: a full buffer, 904 of the 4096
\* bytes asked for next, then nothing of the 3192 left
C20_Witness ==
    /\ op = [name |-> "out_cb", avail |-> W(8192)]
    /\ Len(AudCalls(io)) = 3
    /\ AudCalls(io)[1] = [call |-> "AUD_write", len |-> BufSize, ret |-> BufSize]
    /\ AudCalls(io)[2] = [call |-> "AUD_write", len |-> BufSize, ret |-> 904]
    /\ AudCalls(io)[3] = [call |-> "AUD_write", len |-> 3192, ret |-> 0]

====
